---- MODULE Spec2Model ----
(***************************************************************************)
(* Outline generation (library/src/meta/outline.rs): OutlineElem::show,    *)
(* OutlineIndent::apply and OutlineElem::finalize as a state machine.      *)
(*                                                                         *)
(* The query result is consumed in document order.  The model reveals it   *)
(* one match at a time: `elems` holds the matches the `for` loop has       *)
(* visited so far, and the loop may end after any of them, so every match  *)
(* stream of at most MaxLen elements is covered.                           *)
(***************************************************************************)
EXTENDS Integers, Sequences, FiniteSets, TLC

\* ------------------------------------------------------------------ bounds
MaxLen == 3
MaxLevel == 3

\* usize::MAX, the depth used when `depth` is none.  It is only ever compared
\* with levels, all of which are far below it; it stands here as the largest
\* integer TLC represents.
UsizeMax == 2147483647

\* ------------------------------------------------------------ content model
\* Content values are records tagged by `kind`.
Parbreak == [kind |-> "parbreak"]
Space == [kind |-> "space"]
Linebreak == [kind |-> "linebreak"]
TextElem(s) == [kind |-> "text", text |-> s]
SequenceElem(children) == [kind |-> "sequence", children |-> children]
Empty == SequenceElem(<<>>)
IsEmpty(c) == c.kind = "sequence" /\ c.children = <<>>

\* Content::sequence: nothing gives the empty content, one item gives the
\* item itself, more give a sequence of them.
ContentSequence(items) ==
    IF Len(items) = 0 THEN Empty
    ELSE IF Len(items) = 1 THEN items[1]
    ELSE SequenceElem(items)

\* Content::repeat(n): the sequence of n copies.
Repeat(c, n) == ContentSequence([i \in 1..n |-> c])

\* Content + Content: sequences are flattened into one sequence.
Children(c) == IF c.kind = "sequence" THEN c.children ELSE <<c>>
Add(a, b) == SequenceElem(Children(a) \o Children(b))

\* HeadingElem::new(body).with_level(ONE): `outlined` and `numbering` are
\* not set on the element and resolve through the style chain.
Heading(body) ==
    [kind |-> "heading", body |-> body, level |-> 1,
     outlined |-> "unset", numbering |-> "unset"]
\* The defaults of the two flags: an element is outlined and has no
\* numbering unless something says otherwise.
HeadingDefault(field) == IF field = "outlined" THEN "true" ELSE "none"
\* The innermost style for a field of an element kind in a chain of styles,
\* innermost first, else the default. A style is a property of one element
\* kind and says nothing of the others.
RECURSIVE StyleOf(_, _, _)
StyleOf(elem, field, chain) ==
    IF chain = <<>> THEN HeadingDefault(field)
    ELSE IF chain[1].elem = elem /\ chain[1].field = field THEN chain[1].value
    ELSE StyleOf(elem, field, Tail(chain))
\* A flag of an element under a chain of styles. A restyling is a blanket
\* overlay: it marks every element of its kind inside it, whatever the
\* element says of itself. Outside any restyling of the field for its kind
\* the element's own value counts, else the default.
Resolve(h, field, chain) ==
    IF \E i \in DOMAIN chain :
          chain[i].elem = h.kind /\ chain[i].field = field
    THEN StyleOf(h.kind, field, chain)
    ELSE IF h[field] # "unset" THEN h[field] ELSE HeadingDefault(field)
\* The elements with flags inside a content under a chain of styles, with
\* their flags resolved: the content is walked through every kind that has
\* content inside it.
RECURSIVE ElementsIn(_, _)
ElementsIn(c, chain) ==
    CASE c.kind = "styled" ->
           ElementsIn(c.body,
                      <<[elem |-> c.elem, field |-> c.field,
                         value |-> c.value]>> \o chain)
      [] c.kind = "sequence" ->
           UNION {ElementsIn(c.children[i], chain) : i \in 1..Len(c.children)}
      [] c.kind = "heading" ->
           {[kind |-> "heading", level |-> c.level, body |-> c.body,
             outlined |-> Resolve(c, "outlined", chain),
             numbering |-> Resolve(c, "numbering", chain)]}
           \cup ElementsIn(c.body, chain)
      [] c.kind = "figure" ->
           {[kind |-> "figure", body |-> c.body,
             outlined |-> Resolve(c, "outlined", chain),
             numbering |-> Resolve(c, "numbering", chain)]}
           \cup ElementsIn(c.body, chain)
      [] c.kind \in {"box", "hide", "link", "repeat"} ->
           ElementsIn(c.body, chain)
      [] OTHER -> {}
\* Whether a later or nested outline pass with the target `sel` picks an
\* element up: the element is of the target's function with the fields the
\* target asks for, and it is flagged outlined, which the pass checks.
Matches(sel, e) ==
    /\ e.kind = sel.func
    /\ \A f \in DOMAIN sel.where : e[f] = sel.where[f]
    /\ e.outlined = "true"
\* The default target: headings that are outlined.
DefaultTarget == [func |-> "heading", where |-> [outlined |-> "true"]]
HElem(amount) == [kind |-> "h", amount |-> amount]
BoxElem(body) == [kind |-> "box", body |-> body, width |-> "1fr"]
HideElem(body) == [kind |-> "hide", body |-> body]
Linked(c, loc) == [kind |-> "link", dest |-> loc, body |-> c]
\* The entry body outline() produced for the match at `loc`.
OutlineOf(loc) == [kind |-> "outline", of |-> loc]
\* counter().at(loc).display(numbering) of the element at `loc`.
Numbers(loc) == [kind |-> "numbers", of |-> loc]
\* Counter::new(Page).at(loc).display(pattern).
PageOf(loc, pattern) == [kind |-> "page", at |-> loc, pattern |-> pattern]

\* ------------------------------------------------------------------ inputs
\* The values a caller can pass for `indent`, before the cast.
IndentFuncs == {"nbang", "nothing", "lenDeep", "failDeep"}
IndentValues ==
    {[type |-> "none"], [type |-> "auto"]}
    \cup {[type |-> "bool", b |-> b] : b \in BOOLEAN}
    \cup {[type |-> "length", len |-> "2em"]}
    \cup {[type |-> "func", f |-> f] : f \in IndentFuncs}

\* cast! for OutlineIndent behind Option<Smart<_>>: none gives None, auto
\* gives Smart::Auto, a bool, a length or a function gives the custom variant.
CastIndent(v) ==
    CASE v.type = "none" -> [tag |-> "None"]
      [] v.type = "auto" -> [tag |-> "Auto"]
      [] v.type = "bool" -> [tag |-> "Bool", b |-> v.b]
      [] v.type = "length" -> [tag |-> "Length", len |-> v.len]
      [] v.type = "func" -> [tag |-> "Function", f |-> v.f]

\* What the caller's indent function does when called with `depth`:
\*   nbang    n => [!] * n * n      (empty content at 0)
\*   nothing  n => none
\*   lenDeep  n => if n == 0 { none } else { n * 2em }   (a length at every depth but 0)
\*   failDeep n => if n == 0 [>] else { panic() }
CallFunc(f, depth) ==
    CASE f = "nbang" ->
           [ok |-> TRUE,
            value |-> [type |-> "content",
                       c |-> Repeat(TextElem("!"), depth * depth)]]
      [] f = "nothing" -> [ok |-> TRUE, value |-> [type |-> "none"]]
      [] f = "lenDeep" ->
           IF depth = 0 THEN [ok |-> TRUE, value |-> [type |-> "none"]]
           ELSE [ok |-> TRUE, value |-> [type |-> "length", n |-> depth]]
      [] f = "failDeep" ->
           IF depth = 0
           THEN [ok |-> TRUE, value |-> [type |-> "content", c |-> TextElem(">")]]
           ELSE [ok |-> FALSE]

\* Value::cast::<Content>(): content is itself, none is the empty content,
\* anything else is not content.
CastContent(value) ==
    CASE value.type = "content" -> [ok |-> TRUE, c |-> value.c]
      [] value.type = "none" -> [ok |-> TRUE, c |-> Empty]
      [] OTHER -> [ok |-> FALSE]

\* OutlineElem::local_name; names outside ASCII are given as "<lang>:contents".
LocalName(lang, region) ==
    CASE lang = "ar" -> "ar:contents"
      [] lang = "nb" -> "Innhold"
      [] lang = "zh" /\ region = "TW" -> "zh-TW:contents"
      [] lang = "zh" -> "zh:contents"
      [] lang = "cs" -> "Obsah"
      [] lang = "da" -> "Indhold"
      [] lang = "nl" -> "Inhoudsopgave"
      [] lang = "fr" -> "Table des matieres"
      [] lang = "de" -> "Inhaltsverzeichnis"
      [] lang = "it" -> "Indice"
      [] lang = "nn" -> "Innhald"
      [] lang = "pl" -> "Spis tresci"
      [] lang = "pt" -> "Sumario"
      [] lang = "ru" -> "ru:contents"
      [] lang = "sl" -> "Kazalo"
      [] lang = "es" -> "es:Indice"
      [] lang = "sv" -> "Innehall"
      [] lang = "uk" -> "uk:contents"
      [] lang = "vi" -> "Muc luc"
      [] OTHER -> "Contents"

\* The outline's fields and the styles it is shown under.  depth 0 stands
\* for none (the field is an Option<NonZeroUsize>).
Titles == {"none", "auto", "custom", "nested"}
\* A caller's title with elements inside that are written as outlined and
\* numbered.
NestedTitle ==
    SequenceElem(<<TextElem("T"),
                   [kind |-> "heading", body |-> TextElem("H"), level |-> 2,
                    outlined |-> "true", numbering |-> "1."],
                   [kind |-> "figure", body |-> TextElem("F"),
                    outlined |-> "true", numbering |-> "1"]>>)
Fills == {"none", "dots"}
PageNumberings == {"none", "i"}
TextStyles == {<<"en", "none">>, <<"zh", "TW">>}
AllConfigs ==
    [title : Titles, text : TextStyles, depth : 0..MaxLevel,
     indent : IndentValues, fill : Fills, pageNumbering : PageNumberings]

\* The configurations explored: every depth with every indent value under
\* the default title and fill (the deprecated bools, which alias none and
\* auto, under the default depth only), and every title, text style, fill
\* and page numbering under the default depth and indent.
Configs ==
    {c \in AllConfigs :
        \/ /\ c.title = "auto" /\ c.text = <<"en", "none">>
           /\ c.fill = "dots" /\ c.pageNumbering = "none"
           /\ (c.indent.type = "bool" => c.depth = 0)
        \/ /\ c.depth = 0 /\ c.indent = [type |-> "none"]
           /\ (c.title # "auto" => c.text = <<"en", "none">>)}

\* A match of the query.  `loc` is its location (its place in document
\* order); `outlinable` whether it has the Outlinable capability; `level`
\* its level(); `body` what outline() yields: an entry body ("some"), none
\* ("none") or an error ("err"); `numbering` whether it has a numbering
\* pattern and whether its counter resolves ("none", "ok", "err"); `page`
\* whether the page counter resolves at its location.
UsesNumbering(c) ==
    LET indent == CastIndent(c.indent) IN
    indent.tag = "Auto" \/ (indent.tag = "Bool" /\ indent.b)
Plain(l) ==
    [outlinable |-> TRUE, level |-> l, body |-> "some",
     numbering |-> "none", page |-> "ok"]
\* The kinds of match explored: a plain one at every level, and the ways to
\* differ from it in one field.  outline() yields none for a figure-like
\* match, which keeps the default level() of 1.  The numbering of a match is
\* read only by the auto indentation and is varied only under it; the match
\* whose counter fails is at level 2, where it can stand first or second in
\* a chain.
ElemKinds(c) ==
    {[Plain(1) EXCEPT !.outlinable = FALSE], [Plain(1) EXCEPT !.body = "none"]}
    \cup {Plain(l) : l \in 1..MaxLevel}
    \cup {[Plain(l) EXCEPT !.body = "err"] : l \in 1..MaxLevel}
    \cup {[Plain(l) EXCEPT !.page = "err"] : l \in 1..MaxLevel}
    \cup (IF UsesNumbering(c)
          THEN {[Plain(l) EXCEPT !.numbering = "ok"] : l \in 1..MaxLevel}
               \cup {[Plain(2) EXCEPT !.numbering = "err"]}
          ELSE {})
At(k, loc) ==
    [loc |-> loc, outlinable |-> k.outlinable, level |-> k.level,
     body |-> k.body, numbering |-> k.numbering, page |-> k.page]

\* ------------------------------------------------------------------- state
VARIABLES
    cfg,        \* the outline's fields and styles
    pc,         \* "start", "loop", "render", "done", "failed", "finalized"
    elems,      \* the matches of the query visited so far, in document order
    seq,        \* show's `seq`
    ancestors,  \* show's `ancestors`: references to earlier matches
    calls,      \* the calls made to the caller's indent function
    result,     \* what show returned
    output      \* what finalize returned

\* The state of a call of `align` (library/align.rs).
VARIABLES
    args,       \* the arguments of the call, and the state it is executed in
    apc,        \* "idle", "call", "apply", "applied", "exec", "finished"
    values,     \* apply's `values`: what the iterator has yet to yield
    had,        \* apply's `had`
    had_center, \* apply's `had_center`
    aligns,     \* ctx.state.aligns
    diags,      \* the diagnostics given to ctx.diag, in order
    writes,     \* the assignments made to ctx.state.aligns, in order
    linebreaks, \* the line breaks pushed
    todo,       \* the nodes of the body that are yet to be executed
    stack       \* the calls whose body is being executed, outermost first
alignVars ==
    <<args, apc, values, had, had_center, aligns, diags, writes, linebreaks,
      todo, stack>>
vars ==
    <<cfg, pc, elems, seq, ancestors, calls, result, output, alignVars>>

NoResult == [tag |-> "none"]
Ok(c) == [tag |-> "Ok", content |-> c]
Err(msg, loc) == [tag |-> "Err", error |-> msg, at |-> loc]

Last(s) == s[Len(s)]
Front(s) == SubSeq(s, 1, Len(s) - 1)

\* ---------------------------------------------------------------- show
\* A variant that ignores the configured depth.
DepthIgnored(c) == UsizeMax

\* self.depth(styles).unwrap_or(usize::MAX)
Depth(c) == IF c.depth = 0 THEN UsizeMax ELSE c.depth

\* The outline title: none, the local name under the text styles, or the
\* caller's content.
TitleSeq(c) ==
    CASE c.title = "none" -> <<>>
      [] c.title = "auto" -> <<Heading(TextElem(LocalName(c.text[1], c.text[2])))>>
      [] c.title = "custom" -> <<Heading([kind |-> "custom", of |-> "title"])>>
      [] c.title = "nested" -> <<Heading(NestedTitle)>>

\* Variants of the pop loop: one that keeps an ancestor of equal level, and
\* one that pops at most once.
RECURSIVE PopAncestorsKeepEqual(_, _)
PopAncestorsKeepEqual(anc, level) ==
    IF anc # <<>> /\ Last(anc).outlinable /\ Last(anc).level > level
    THEN PopAncestorsKeepEqual(Front(anc), level)
    ELSE anc
PopAncestorsOnce(anc, level) ==
    IF anc # <<>> /\ Last(anc).outlinable /\ Last(anc).level >= level
    THEN Front(anc)
    ELSE anc

\* while ancestors.last() is outlinable and its level >= level { pop }
RECURSIVE PopAncestors(_, _)
PopAncestors(anc, level) ==
    IF anc # <<>> /\ Last(anc).outlinable /\ Last(anc).level >= level
    THEN PopAncestors(Front(anc), level)
    ELSE anc

\* Variants of the loop head: one that runs the pop loop before it looks at
\* what outline() yields, and one that takes an outline() error for none.
AdmissionPopsFirst(c, anc, e) ==
    IF ~e.outlinable
    THEN [status |-> "fail", error |-> Err("cannot outline", e.loc)]
    ELSE IF Depth(c) < e.level
    THEN [status |-> "skip", ancestors |-> anc]
    ELSE IF e.body = "err"
    THEN [status |-> "fail", error |-> Err("outline", e.loc)]
    ELSE IF e.body = "none"
    THEN [status |-> "skip", ancestors |-> PopAncestors(anc, e.level)]
    ELSE [status |-> "admit", ancestors |-> PopAncestors(anc, e.level)]
AdmissionSwallowsError(c, anc, e) ==
    IF ~e.outlinable
    THEN [status |-> "fail", error |-> Err("cannot outline", e.loc)]
    ELSE IF Depth(c) < e.level
    THEN [status |-> "skip", ancestors |-> anc]
    ELSE IF e.body \in {"err", "none"}
    THEN [status |-> "skip", ancestors |-> anc]
    ELSE [status |-> "admit", ancestors |-> PopAncestors(anc, e.level)]

\* The head of one loop iteration, up to and including the pop loop: the
\* build fails, the match is skipped with the ancestors as they were, or the
\* match is admitted with the ancestors the pop loop leaves.
Admission(c, anc, e) ==
    IF ~e.outlinable
    THEN [status |-> "fail", error |-> Err("cannot outline", e.loc)]
    ELSE IF Depth(c) < e.level
    THEN [status |-> "skip", ancestors |-> anc]
    ELSE IF e.body = "err"
    THEN [status |-> "fail", error |-> Err("outline", e.loc)]
    ELSE IF e.body = "none"
    THEN [status |-> "skip", ancestors |-> anc]
    ELSE [status |-> "admit", ancestors |-> PopAncestors(anc, e.level)]

\* A variant that puts the numbers of deeper ancestors first.
RECURSIVE HiddenNumbersDeepFirst(_, _, _)
HiddenNumbersDeepFirst(anc, i, hidden) ==
    IF i > Len(anc) THEN [ok |-> TRUE, hidden |-> hidden]
    ELSE IF anc[i].numbering = "none"
    THEN HiddenNumbersDeepFirst(anc, i + 1, hidden)
    ELSE IF anc[i].numbering = "err"
    THEN [ok |-> FALSE, error |-> Err("counter", anc[i].loc)]
    ELSE HiddenNumbersDeepFirst(anc, i + 1,
                                Add(Add(Numbers(anc[i].loc), Space), hidden))

\* The hidden numberings of the ancestors from the i-th on, added to
\* `hidden`; the first counter that does not resolve fails the build.
RECURSIVE HiddenNumbers(_, _, _)
HiddenNumbers(anc, i, hidden) ==
    IF i > Len(anc) THEN [ok |-> TRUE, hidden |-> hidden]
    ELSE IF anc[i].numbering = "none" THEN HiddenNumbers(anc, i + 1, hidden)
    ELSE IF anc[i].numbering = "err"
    THEN [ok |-> FALSE, error |-> Err("counter", anc[i].loc)]
    ELSE HiddenNumbers(anc, i + 1,
                       Add(hidden, Add(Numbers(anc[i].loc), Space)))

\* OutlineIndent::apply: the new `seq`, the calls made, or the error.
AutoIndent(anc, s) ==
    LET h == HiddenNumbers(anc, 1, Empty) IN
    IF ~h.ok THEN [ok |-> FALSE, error |-> h.error]
    ELSE IF anc # <<>>
    THEN [ok |-> TRUE, seq |-> s \o <<HideElem(h.hidden), Space>>, calls |-> <<>>]
    ELSE [ok |-> TRUE, seq |-> s, calls |-> <<>>]

\* A variant that counts the nesting depth from 1.
LengthIndentFromOne(length, anc, s) ==
    [ok |-> TRUE, seq |-> Append(s, Repeat(HElem(length), Len(anc) + 1)),
     calls |-> <<>>]

\* Length => the spacer repeated per ancestor is pushed.
LengthIndent(length, anc, s) ==
    [ok |-> TRUE, seq |-> Append(s, Repeat(HElem(length), Len(anc))),
     calls |-> <<>>]

\* A variant that counts the nesting depth from 1.
FunctionIndentFromOne(f, anc, s, loc) ==
    LET depth == Len(anc) + 1
        call == [f |-> f, depth |-> depth, for |-> loc]
        returned == CallFunc(f, depth)
    IN  IF ~returned.ok
        THEN [ok |-> FALSE, error |-> Err("function", loc), calls |-> <<call>>]
        ELSE LET cast == CastContent(returned.value) IN
             IF ~cast.ok
             THEN [ok |-> FALSE,
                   error |-> Err("indent function must return content", loc),
                   calls |-> <<call>>]
             ELSE IF ~IsEmpty(cast.c)
             THEN [ok |-> TRUE, seq |-> Append(s, cast.c), calls |-> <<call>>]
             ELSE [ok |-> TRUE, seq |-> s, calls |-> <<call>>]

\* Function => call the function with the current depth and take the
\* returned content, unless it is empty.
FunctionIndent(f, anc, s, loc) ==
    LET depth == Len(anc)
        call == [f |-> f, depth |-> depth, for |-> loc]
        returned == CallFunc(f, depth)
    IN  IF ~returned.ok
        THEN [ok |-> FALSE, error |-> Err("function", loc), calls |-> <<call>>]
        ELSE LET cast == CastContent(returned.value) IN
             IF ~cast.ok
             THEN [ok |-> FALSE,
                   error |-> Err("indent function must return content", loc),
                   calls |-> <<call>>]
             ELSE IF ~IsEmpty(cast.c)
             THEN [ok |-> TRUE, seq |-> Append(s, cast.c), calls |-> <<call>>]
             ELSE [ok |-> TRUE, seq |-> s, calls |-> <<call>>]

IndentApply(indent, anc, s, loc) ==
    CASE indent.tag = "None" -> [ok |-> TRUE, seq |-> s, calls |-> <<>>]
      [] indent.tag = "Bool" /\ ~indent.b -> [ok |-> TRUE, seq |-> s, calls |-> <<>>]
      [] indent.tag = "Auto" -> AutoIndent(anc, s)
      [] indent.tag = "Bool" /\ indent.b -> AutoIndent(anc, s)
      [] indent.tag = "Length" -> LengthIndent(indent.len, anc, s)
      [] indent.tag = "Function" -> FunctionIndent(indent.f, anc, s, loc)

\* The filler between the entry body and the page number.
Filler(c) ==
    IF c.fill # "none"
    THEN <<Space, BoxElem([kind |-> "repeat", body |-> TextElem(".")]), Space>>
    ELSE <<HElem("1fr")>>

\* page_numbering(location), or the pattern "1" when there is none.
PageNumbering(c) == IF c.pageNumbering = "none" THEN "1" ELSE c.pageNumbering

\* A variant that puts the page number before the filler.
EntryPageFirst(c, anc, s, e) ==
    LET ind == IndentApply(CastIndent(c.indent), anc, s, e.loc) IN
    IF ~ind.ok
    THEN [ok |-> FALSE, error |-> ind.error,
          calls |-> IF "calls" \in DOMAIN ind THEN ind.calls ELSE <<>>]
    ELSE LET s1 == Append(ind.seq, Linked(OutlineOf(e.loc), e.loc)) IN
         IF e.page = "err"
         THEN [ok |-> FALSE, error |-> Err("page", e.loc), calls |-> ind.calls]
         ELSE [ok |-> TRUE,
               seq |-> s1 \o <<Linked(PageOf(e.loc, PageNumbering(c)), e.loc)>>
                          \o Filler(c) \o <<Linebreak>>,
               ancestors |-> Append(anc, e),
               calls |-> ind.calls]

\* The rest of the iteration for an admitted match: its entry.
Entry(c, anc, s, e) ==
    LET ind == IndentApply(CastIndent(c.indent), anc, s, e.loc) IN
    IF ~ind.ok
    THEN [ok |-> FALSE, error |-> ind.error,
          calls |-> IF "calls" \in DOMAIN ind THEN ind.calls ELSE <<>>]
    ELSE LET s1 == Append(ind.seq, Linked(OutlineOf(e.loc), e.loc))
             s2 == s1 \o Filler(c)
         IN  IF e.page = "err"
             THEN [ok |-> FALSE, error |-> Err("page", e.loc), calls |-> ind.calls]
             ELSE [ok |-> TRUE,
                   seq |-> s2 \o <<Linked(PageOf(e.loc, PageNumbering(c)), e.loc),
                                   Linebreak>>,
                   ancestors |-> Append(anc, e),
                   calls |-> ind.calls]

\* show as a function of the outline and the query result: the loop run over
\* the matches from the i-th on.
RECURSIVE ShowLoop(_, _, _, _, _)
ShowLoop(c, es, i, anc, s) ==
    IF i > Len(es) THEN Ok(ContentSequence(Append(s, Parbreak)))
    ELSE LET a == Admission(c, anc, es[i]) IN
         IF a.status = "fail" THEN a.error
         ELSE IF a.status = "skip" THEN ShowLoop(c, es, i + 1, a.ancestors, s)
         ELSE LET r == Entry(c, a.ancestors, s, es[i]) IN
              IF ~r.ok THEN r.error
              ELSE ShowLoop(c, es, i + 1, r.ancestors, r.seq)
ShowOf(c, es) == ShowLoop(c, es, 1, <<>>, <<Parbreak>> \o TitleSeq(c))

\* -------------------------------------------------------------------- align
\* enum AlignValue; "absent" stands for an argument that was not given.
AlignValue == {"left", "center", "right", "top", "bottom"}
NotGiven == "absent"
NoAxis == "none"

\* AlignValue::axis
AxisOf(v) ==
    CASE v \in {"left", "right"} -> "horizontal"
      [] v \in {"top", "bottom"} -> "vertical"
      [] v = "center" -> NoAxis

\* Dir::axis and Dir::is_positive
DirAxis(dir) == IF dir \in {"ltr", "rtl"} THEN "horizontal" ELSE "vertical"
IsPositive(dir) == dir \in {"ltr", "ttb"}

\* SpecAxis::switch: the generic axis a specific axis falls on.
SwitchAxis(axis, dirs) == IF axis = DirAxis(dirs.main) THEN "main" ELSE "cross"

\* LayoutDirs::switch: the directions by specific axis.
SwitchDirs(dirs) ==
    IF DirAxis(dirs.main) = "horizontal"
    THEN [horizontal |-> dirs.main, vertical |-> dirs.cross]
    ELSE [horizontal |-> dirs.cross, vertical |-> dirs.main]

\* The closure `get` of AlignValue::switch.
Get(dir, at_positive_start) ==
    IF IsPositive(dir) = at_positive_start THEN "start" ELSE "end"

\* AlignValue::switch
SwitchAlign(v, dirs) ==
    LET d == SwitchDirs(dirs) IN
    CASE v = "left" -> Get(d.horizontal, TRUE)
      [] v = "right" -> Get(d.horizontal, FALSE)
      [] v = "top" -> Get(d.vertical, TRUE)
      [] v = "bottom" -> Get(d.vertical, FALSE)
      [] v = "center" -> "center"

\* The layouting directions a call is executed under, and the alignments in
\* force before it.
LayoutDirs ==
    { [main |-> "ttb", cross |-> "ltr"], [main |-> "ttb", cross |-> "rtl"],
      [main |-> "ltr", cross |-> "ttb"], [main |-> "rtl", cross |-> "btt"] }
StartAligns ==
    { [main |-> "start", cross |-> "start"], [main |-> "center", cross |-> "end"],
      [main |-> "end", cross |-> "center"] }

\* A body: not given, or a template of nodes, each the value of a call of
\* align. A call as it is written: its alignments and its body.
NoBody == [given |-> FALSE, nodes |-> <<>>]
Template(nodes) == [given |-> TRUE, nodes |-> nodes]
Written(first_, second, horizontal, vertical, body) ==
    [first |-> first_, second |-> second, horizontal |-> horizontal,
     vertical |-> vertical, body |-> body]

\* The calls found in a body: positional alignments only, with no body or
\* an empty one.
InnerCalls ==
    { Written(p[1], p[2], NotGiven, NotGiven, b) :
        p \in { <<"bottom", NotGiven>>, <<"left", "left">>,
                <<"center", NotGiven>>, <<"center", "top">> },
        b \in {NoBody, Template(<<>>)} }

\* A call as it is executed: in the state and under the directions that
\* ctx holds when its template runs.
Executed(c, dirs, before) ==
    [first |-> c.first, second |-> c.second, horizontal |-> c.horizontal,
     vertical |-> c.vertical, body |-> c.body, dirs |-> dirs,
     aligns |-> before]

\* The calls of align: args.find yields the positional alignments in order,
\* so there is no second without a first. A body holds at most one call;
\* the calls whose body holds one have positional alignments only.
AlignCalls ==
    { c \in [first : AlignValue \cup {NotGiven},
             second : AlignValue \cup {NotGiven},
             horizontal : AlignValue \cup {NotGiven},
             vertical : AlignValue \cup {NotGiven},
             body : {NoBody, Template(<<>>)},
             dirs : LayoutDirs, aligns : StartAligns] :
        c.first = NotGiven => c.second = NotGiven }
    \cup
    { c \in [first : AlignValue \cup {NotGiven},
             second : AlignValue \cup {NotGiven},
             horizontal : {NotGiven}, vertical : {NotGiven},
             body : {Template(<<i>>) : i \in InnerCalls},
             dirs : LayoutDirs, aligns : StartAligns] :
        c.first = NotGiven => c.second = NotGiven }
NoCall ==
    Executed(Written(NotGiven, NotGiven, NotGiven, NotGiven, NoBody),
             [main |-> "ttb", cross |-> "ltr"],
             [main |-> "start", cross |-> "start"])

\* Option::into_iter
IntoIter(axis, v, span) ==
    IF v = NotGiven THEN <<>> ELSE <<[axis |-> axis, v |-> v, span |-> span]>>

\* The span of an argument, or of the end of apply, in a call `nesting`
\* bodies deep.
RECURSIVE SpanOf(_, _)
SpanOf(nesting, name) ==
    IF nesting = 0 THEN name ELSE "body:" \o SpanOf(nesting - 1, name)

\* align's `values`: the positional alignments with the axis they name
\* themselves, then the named ones with the axis of their name.
ValuesOf(c, nesting) ==
    IntoIter(IF c.first = NotGiven THEN NoAxis ELSE AxisOf(c.first),
             c.first, SpanOf(nesting, "first"))
    \o IntoIter(IF c.second = NotGiven THEN NoAxis ELSE AxisOf(c.second),
                c.second, SpanOf(nesting, "second"))
    \o IntoIter("horizontal", c.horizontal, SpanOf(nesting, "horizontal"))
    \o IntoIter("vertical", c.vertical, SpanOf(nesting, "vertical"))

Uniform(b) == [main |-> b, cross |-> b]
Diag(msg, span) == [msg |-> msg, span |-> span]
Write(gen_axis, align, span) ==
    [axis |-> gen_axis, align |-> align, during |-> span]

\* No call of align is under way.
AlignIdle ==
    /\ args = NoCall
    /\ apc = "idle"
    /\ values = <<>>
    /\ had = Uniform(FALSE)
    /\ had_center = FALSE
    /\ aligns = NoCall.aligns
    /\ diags = <<>>
    /\ writes = <<>>
    /\ linebreaks = 0
    /\ todo = <<>>
    /\ stack = <<>>

\* ------------------------------------------------------------------ actions
Init ==
    /\ AlignIdle
    /\ cfg \in Configs
    /\ pc = "start"
    /\ elems = <<>>
    /\ seq = <<>>
    /\ ancestors = <<>>
    /\ calls = <<>>
    /\ result = NoResult
    /\ output = NoResult

\* show, up to the query: the leading paragraph break and the title.
ShowBegin ==
    /\ pc = "start"
    /\ seq' = <<Parbreak>> \o TitleSeq(cfg)
    /\ ancestors' = <<>>
    /\ pc' = "loop"
    /\ UNCHANGED <<cfg, elems, calls, result, output, alignVars>>

\* The loop visits the next match: the checks, the skips and the pop loop.
\* A failure returns the error; show's locals are dropped.
Admit ==
    /\ pc = "loop"
    /\ Len(elems) < MaxLen
    /\ \E k \in ElemKinds(cfg) :
         LET e == At(k, Len(elems) + 1)
             a == Admission(cfg, ancestors, e)
         IN  /\ elems' = Append(elems, e)
             /\ pc' = CASE a.status = "fail" -> "failed"
                         [] a.status = "skip" -> "loop"
                         [] a.status = "admit" -> "render"
             /\ ancestors' = IF a.status = "fail" THEN <<>> ELSE a.ancestors
             /\ seq' = IF a.status = "fail" THEN <<>> ELSE seq
             /\ result' = IF a.status = "fail" THEN a.error ELSE result
    /\ UNCHANGED <<cfg, calls, output, alignVars>>

\* The entry of the admitted match is appended and the match is pushed onto
\* the ancestors.
Render ==
    /\ pc = "render"
    /\ LET r == Entry(cfg, ancestors, seq, Last(elems)) IN
         /\ calls' = calls \o r.calls
         /\ pc' = IF r.ok THEN "loop" ELSE "failed"
         /\ seq' = IF r.ok THEN r.seq ELSE <<>>
         /\ ancestors' = IF r.ok THEN r.ancestors ELSE <<>>
         /\ result' = IF r.ok THEN result ELSE r.error
    /\ UNCHANGED <<cfg, elems, output, alignVars>>

\* The query result is exhausted: the trailing paragraph break, and the
\* sequence is returned.
ShowEnd ==
    /\ pc = "loop"
    /\ result' = Ok(ContentSequence(Append(seq, Parbreak)))
    /\ seq' = <<>>
    /\ ancestors' = <<>>
    /\ pc' = "done"
    /\ UNCHANGED <<cfg, elems, calls, output, alignVars>>

\* Content::styled: the content under one style property, which is the
\* field of one element kind set to a value.
Styled(c, elem, field, value) ==
    [kind |-> "styled", body |-> c, elem |-> elem, field |-> field,
     value |-> value]

\* A variant that leaves `outlined` as it is.
FinalizeOfNumberingOnly(realized) ==
    Styled(realized, "heading", "numbering", "none")

\* finalize: realized.styled(HeadingElem::set_outlined(false))
\*                   .styled(HeadingElem::set_numbering(None))
FinalizeOf(realized) ==
    Styled(Styled(realized, "heading", "outlined", "false"),
           "heading", "numbering", "none")

Finalize ==
    /\ pc = "done"
    /\ output' = FinalizeOf(result.content)
    /\ pc' = "finalized"
    /\ UNCHANGED <<cfg, elems, seq, ancestors, calls, result, alignVars>>

Next == ShowBegin \/ Admit \/ Render \/ ShowEnd \/ Finalize

Spec == Init /\ [][Next]_vars

\* The state apply works on.
ApplyState == [had |-> had, had_center |-> had_center, aligns |-> aligns,
               diags |-> diags, writes |-> writes]

\* apply, the axis is known: invalid for the axis, duplicate, or applied.
Known(st, axis, arg, span, dirs) ==
    LET gen_axis == SwitchAxis(axis, dirs)
        gen_align == SwitchAlign(arg, dirs)
    IN  IF AxisOf(arg) \notin {NoAxis, axis}
        THEN [st EXCEPT !.diags = Append(@,
                 Diag("invalid alignment for " \o axis \o " axis", span))]
        ELSE IF st.had[gen_axis]
        THEN [st EXCEPT !.diags = Append(@,
                 Diag("duplicate alignment for " \o axis \o " axis", span))]
        ELSE [st EXCEPT !.aligns[gen_axis] = gen_align,
                        !.had[gen_axis] = TRUE,
                        !.writes = Append(@, Write(gen_axis, gen_align, span))]

\* apply, the axis is not known: a positional `center`.
Unknown(st, span) ==
    IF st.had.main /\ st.had.cross
    THEN [st EXCEPT !.diags = Append(@, Diag("duplicate alignment", span))]
    ELSE IF st.had_center
    THEN [st EXCEPT !.aligns = Uniform("center"),
                    !.writes = @ \o <<Write("main", "center", span),
                                      Write("cross", "center", span)>>,
                    !.had = Uniform(TRUE)]
    ELSE [st EXCEPT !.had_center = TRUE]

\* A variant that puts a pending `center` on the cross axis whatever the
\* other alignment occupies.
FlushToCross(st, span) ==
    IF st.had_center /\ (st.had.main \/ st.had.cross)
    THEN [st EXCEPT !.aligns.cross = "center",
                    !.writes = Append(@, Write("cross", "center", span)),
                    !.had = Uniform(TRUE),
                    !.had_center = FALSE]
    ELSE st

\* apply, the end of an iteration: a pending `center` goes to the axis the
\* other alignment left free.
Flush(st, span) ==
    IF st.had_center /\ (st.had.main \/ st.had.cross)
    THEN LET free == IF st.had.main THEN "cross" ELSE "main" IN
         [st EXCEPT !.aligns[free] = "center",
                    !.writes = Append(@, Write(free, "center", span)),
                    !.had = Uniform(TRUE),
                    !.had_center = FALSE]
    ELSE st

\* One iteration of apply's loop.
ApplyStepOf(st, val, dirs) ==
    Flush(IF val.axis # NoAxis
          THEN Known(st, val.axis, val.v, val.span, dirs)
          ELSE Unknown(st, val.span),
          val.span)

\* apply, after the loop: a `center` still pending goes to the cross axis.
ApplyEndOf(st, span) ==
    IF st.had_center
    THEN [st EXCEPT !.aligns.cross = "center",
                    !.writes = Append(@, Write("cross", "center", span))]
    ELSE st

\* A call of align is evaluated in some state, under some directions.
InitAlign ==
    /\ cfg = CHOOSE c \in Configs : TRUE
    /\ pc = "start"
    /\ elems = <<>> /\ seq = <<>> /\ ancestors = <<>> /\ calls = <<>>
    /\ result = NoResult /\ output = NoResult
    /\ args \in AlignCalls
    /\ apc = "call"
    /\ values = <<>>
    /\ had = Uniform(FALSE)
    /\ had_center = FALSE
    /\ aligns = args.aligns
    /\ diags = <<>>
    /\ writes = <<>>
    /\ linebreaks = 0
    /\ todo = <<>>
    /\ stack = <<>>

outlineVars ==
    <<cfg, pc, elems, seq, ancestors, calls, result, output>>

\* How many bodies deep the running call is.
Nesting == Len(stack)

\* The template is executed: `values` is chained together and apply starts.
\* args.aligns is the snapshot.
AlignBegin ==
    /\ apc = "call"
    /\ values' = ValuesOf(args, Nesting)
    /\ had' = Uniform(FALSE)
    /\ had_center' = FALSE
    /\ apc' = "apply"
    /\ UNCHANGED <<args, aligns, diags, writes, linebreaks, todo, stack,
                   outlineVars>>

\* apply takes the next value.
ApplyStep ==
    /\ apc = "apply"
    /\ values # <<>>
    /\ LET st == ApplyStepOf(ApplyState, Head(values), args.dirs) IN
         /\ had' = st.had
         /\ had_center' = st.had_center
         /\ aligns' = st.aligns
         /\ diags' = st.diags
         /\ writes' = st.writes
    /\ values' = Tail(values)
    /\ UNCHANGED <<args, apc, linebreaks, todo, stack, outlineVars>>

\* The values are exhausted and apply returns.
ApplyEnd ==
    /\ apc = "apply"
    /\ values = <<>>
    /\ LET st == ApplyEndOf(ApplyState, SpanOf(Nesting, "end")) IN
         /\ aligns' = st.aligns
         /\ writes' = st.writes
    /\ apc' = "applied"
    /\ UNCHANGED <<args, values, had, had_center, diags, linebreaks, todo,
                   stack, outlineVars>>

\* After apply: a line break if the main alignment changed. The body, if
\* there is one, is about to be executed.
AlignLinebreak ==
    /\ apc = "applied"
    /\ linebreaks' = IF aligns.main # args.aligns.main
                     THEN linebreaks + 1 ELSE linebreaks
    /\ todo' = args.body.nodes
    /\ apc' = "exec"
    /\ UNCHANGED <<args, values, had, had_center, aligns, diags, writes,
                   stack, outlineVars>>

\* body.exec reaches a node: the template of a call of align is run on the
\* same ctx, in the state the body has reached.
BodyCall ==
    /\ apc = "exec"
    /\ todo # <<>>
    /\ stack' = Append(stack, [args |-> args, values |-> values, had |-> had,
                               had_center |-> had_center,
                               todo |-> Tail(todo)])
    /\ args' = Executed(Head(todo), args.dirs, aligns)
    /\ apc' = "call"
    /\ todo' = <<>>
    /\ UNCHANGED <<values, had, had_center, aligns, diags, writes,
                   linebreaks, outlineVars>>

\* The template of a node has finished: body.exec goes on in the call that
\* holds the body.
BodyReturn ==
    /\ apc = "finished"
    /\ stack # <<>>
    /\ LET frame == Last(stack) IN
         /\ args' = frame.args
         /\ values' = frame.values
         /\ had' = frame.had
         /\ had_center' = frame.had_center
         /\ todo' = frame.todo
    /\ stack' = Front(stack)
    /\ apc' = "exec"
    /\ UNCHANGED <<aligns, diags, writes, linebreaks, outlineVars>>

\* The body, if there was one, has been executed: the state before the call
\* is restored. The template has finished.
AlignEnd ==
    /\ apc = "exec"
    /\ todo = <<>>
    /\ aligns' = IF args.body.given THEN args.aligns ELSE aligns
    /\ apc' = "finished"
    /\ UNCHANGED <<args, values, had, had_center, diags, writes, linebreaks,
                   todo, stack, outlineVars>>

NextAlign ==
    \/ AlignBegin \/ ApplyStep \/ ApplyEnd \/ AlignLinebreak
    \/ BodyCall \/ BodyReturn \/ AlignEnd

SpecAlign == InitAlign /\ [][NextAlign]_vars

\* ------------------------------------------------------------ properties
\* The output sequence as it stands: `seq` during the build, the children of
\* the returned sequence after it.
Out == IF result.tag = "Ok" THEN result.content.children ELSE seq

IsLabel(t) == t.kind = "link" /\ t.body.kind = "outline"
\* The places of the entry bodies in a sequence, and the matches they are of.
LabelPlaces(s) == {p \in 1..Len(s) : IsLabel(s[p])}
LabelLocs(s) == {s[p].dest : p \in LabelPlaces(s)}

\* A match that passes the depth filter and has an entry body.
WithinDepth(c, e) == c.depth = 0 \/ e.level <= c.depth
Shown(c, e) == e.outlinable /\ WithinDepth(c, e) /\ e.body = "some"

\* The match the loop is working on between its admission and its push.
Current == Last(elems)

StrictlyIncreasing(anc) ==
    \A i \in 1..(Len(anc) - 1) : anc[i].level < anc[i + 1].level

\* The chain of still-enclosing ancestors of a match of `level` among the
\* matches `before` it that were rendered: the nearest one of a smaller
\* level, preceded by that one's own chain.
RECURSIVE EnclosingChain(_, _)
EnclosingChain(before, level) ==
    LET below == {i \in 1..Len(before) : before[i].level < level} IN
    IF below = {} THEN <<>>
    ELSE LET j == CHOOSE i \in below : \A k \in below : k <= i IN
         Append(EnclosingChain(SubSeq(before, 1, j - 1), before[j].level),
                before[j])

\* The matches among the first n visited that have an entry.
ShownAmong(n) == SelectSeq(SubSeq(elems, 1, n), LAMBDA e : Shown(cfg, e))
\* The enclosing chain of the i-th visited match.
ChainOf(i) == EnclosingChain(ShownAmong(i - 1), elems[i].level)

\* C1: after each admission and after each push the levels of the ancestor
\* chain increase strictly from front to back, and when a match is rendered
\* every chain entry's level is strictly below the match's level.
ChainStrictlyIncreasing ==
    /\ StrictlyIncreasing(ancestors)
    /\ pc = "render" =>
          \A i \in 1..Len(ancestors) : ancestors[i].level < Current.level

\* A match of level 2 is admitted after a match of level 2 under an ancestor
\* of level 1: the pop loop has evicted one entry and kept the other.
ChainStrictlyIncreasingWitness ==
    /\ pc = "render" /\ Len(elems) = 3
    /\ elems[1].level = 1 /\ elems[2].level = 2 /\ Current.level = 2
    /\ Len(ancestors) = 1

\* C2: when the pop loop has run for a match about to be rendered, the
\* ancestor chain is exactly the chain of its still-enclosing ancestors:
\* the nearest rendered match of a strictly smaller level, before it the
\* nearest one below that, and so on; a match of equal level is not in it.
ChainIsEnclosingAncestors ==
    pc = "render" =>
        /\ ancestors = ChainOf(Len(elems))
        /\ \A i \in 1..Len(ancestors) : ancestors[i].level # Current.level

\* A match of level 1 is admitted after rendered matches of levels 1 and 2:
\* both are evicted, the first as a sibling of equal level.
ChainIsEnclosingAncestorsWitness ==
    /\ pc = "render" /\ Len(elems) = 3
    /\ Shown(cfg, elems[1]) /\ Shown(cfg, elems[2])
    /\ elems[1].level = 1 /\ elems[2].level = 2 /\ Current.level = 1
    /\ ancestors = <<>>

\* C3: under depth d no entry is of a match of level > d and no such match
\* is in the ancestor chain; with depth none every match that has an entry
\* body is rendered whatever its level.
DepthFiltering ==
    /\ cfg.depth # 0 =>
          /\ \A l \in LabelLocs(Out) : elems[l].level <= cfg.depth
          /\ \A i \in 1..Len(ancestors) : ancestors[i].level <= cfg.depth
    /\ (cfg.depth = 0 /\ pc \in {"loop", "done"}) =>
          \A i \in 1..Len(elems) :
              elems[i].body = "some" => i \in LabelLocs(Out)

\* Depth 2: a match of level 3 that has an entry body is skipped between two
\* rendered matches of levels 2 and 1.
DepthFilteringWitness ==
    /\ pc = "loop" /\ cfg.depth = 2 /\ Len(elems) = 3
    /\ elems[1].level = 2 /\ elems[2].level = 3 /\ elems[3].level = 1
    /\ elems[2].body = "some"
    /\ LabelLocs(Out) = {1, 3}

\* A match whose outline() yields none.
Absent(e) == e.outlinable /\ e.body = "none"
\* The step in which the loop visits a match whose outline() yields none.
VisitsAbsent ==
    /\ pc = "loop" /\ Len(elems') = Len(elems) + 1
    /\ Absent(Last(elems'))

\* C4: a match whose outline() yields none is omitted: no entry is of it and
\* it is never in the ancestor chain; visiting it changes neither the output
\* sequence nor the ancestor chain; and what show returns is what it returns
\* for the query result without such matches.
AbsentOmitted ==
    /\ [](/\ \A l \in LabelLocs(Out) : ~Absent(elems[l])
          /\ \A i \in 1..Len(ancestors) : ~Absent(ancestors[i])
          /\ pc \in {"done", "failed"} =>
                result = ShowOf(cfg, SelectSeq(elems, LAMBDA e : ~Absent(e))))
    /\ [][VisitsAbsent => UNCHANGED <<pc, seq, ancestors, calls, result>>]_vars

\* A match without entry body stands between a rendered match of level 1 and
\* its child of level 2: the child is admitted under the first match.
AbsentOmittedWitness ==
    /\ pc = "render" /\ Len(elems) = 3
    /\ Shown(cfg, elems[1]) /\ elems[1].level = 1
    /\ Absent(elems[2]) /\ Current.level = 2
    /\ ancestors = <<elems[1]>>
    /\ LabelLocs(Out) = {1}

\* The failure of the indentation for a match with enclosing chain `chain`,
\* if any: under auto (or true) the first ancestor in chain order whose
\* counter does not resolve; under a function a failing call or a result
\* that is not content.
IndentFailure(c, chain, loc) ==
    IF c.indent.type = "auto" \/ (c.indent.type = "bool" /\ c.indent.b)
    THEN LET bad == {i \in 1..Len(chain) : chain[i].numbering = "err"} IN
         IF bad = {} THEN NoResult
         ELSE Err("counter", chain[CHOOSE i \in bad : \A k \in bad : i <= k].loc)
    ELSE IF c.indent.type = "func"
    THEN LET r == CallFunc(c.indent.f, Len(chain)) IN
         IF ~r.ok THEN Err("function", loc)
         ELSE IF r.value.type \notin {"content", "none"}
         THEN Err("indent function must return content", loc)
         ELSE NoResult
    ELSE NoResult

\* The failure of the i-th visited match, if any, in the order of the steps
\* of its iteration.
FailureAt(i) ==
    LET e == elems[i] IN
    IF ~e.outlinable THEN Err("cannot outline", e.loc)
    ELSE IF ~WithinDepth(cfg, e) THEN NoResult
    ELSE IF e.body = "err" THEN Err("outline", e.loc)
    ELSE IF e.body = "none" THEN NoResult
    ELSE LET f == IndentFailure(cfg, ChainOf(i), e.loc) IN
         IF f # NoResult THEN f
         ELSE IF e.page = "err" THEN Err("page", e.loc)
         ELSE NoResult

\* C5: a build that fails returns the error of the first failing match in
\* document order and nothing else: no later match is visited, no content is
\* returned and nothing is finalized; a build that has not failed has met
\* no failing match.
FailFast ==
    /\ [](/\ pc = "failed" =>
               /\ elems # <<>>
               /\ result.tag = "Err"
               /\ result = FailureAt(Len(elems))
               /\ \A i \in 1..(Len(elems) - 1) : FailureAt(i) = NoResult
               /\ seq = <<>> /\ output = NoResult
          /\ pc = "render" =>
               \A i \in 1..(Len(elems) - 1) : FailureAt(i) = NoResult
          /\ pc \in {"loop", "done", "finalized"} =>
               \A i \in 1..Len(elems) : FailureAt(i) = NoResult
          /\ result.tag = "Ok" <=> pc \in {"done", "finalized"}
          /\ result.tag = "Err" <=> pc = "failed")
    /\ [][pc # "failed"]_vars

\* The page counter fails at the third match, after the title and two
\* entries have been accumulated.
FailFastWitness ==
    /\ pc = "failed" /\ Len(elems) = 3
    /\ cfg.title # "none"
    /\ Shown(cfg, elems[1]) /\ Shown(cfg, elems[2])
    /\ result = Err("page", 3)

\* What stands before an entry that has no indentation fragment: the end of
\* the entry before it, or the head of the sequence.
EntryBoundary(t) == t.kind \in {"parbreak", "heading", "linebreak"}

\* The matches that have reached their indentation: those with an entry,
\* but for the one admitted and not yet rendered.
Indented ==
    ShownAmong(IF pc = "render" THEN Len(elems) - 1 ELSE Len(elems))

\* C6: under a function the function is called exactly once for every match
\* that reaches its entry, in order, with the length of the match's
\* enclosing chain; content that is not empty stands immediately before the
\* entry body, an empty result leaves no fragment, and a result that is not
\* content fails the build with the type error.
FunctionIndentation ==
    IF cfg.indent.type # "func" THEN calls = <<>>
    ELSE
    /\ calls = [k \in 1..Len(Indented) |->
                  [f |-> cfg.indent.f,
                   depth |-> Len(ChainOf(Indented[k].loc)),
                   for |-> Indented[k].loc]]
    /\ \A p \in LabelPlaces(Out) :
          LET v == CallFunc(cfg.indent.f, Len(ChainOf(Out[p].dest))).value IN
          IF v.type = "content" /\ v.c # Empty
          THEN Out[p - 1] = v.c /\ EntryBoundary(Out[p - 2])
          ELSE v.type \in {"content", "none"} /\ EntryBoundary(Out[p - 1])
    /\ \A k \in 1..Len(Indented) :
          LET r == CallFunc(cfg.indent.f, Len(ChainOf(Indented[k].loc))) IN
          (r.ok /\ r.value.type \notin {"content", "none"}) =>
              /\ pc = "failed" /\ Indented[k].loc = Len(elems)
              /\ result = Err("indent function must return content", Len(elems))

\* n => [!] * n * n over matches of levels 1, 2, 3: called with 0, 1 and 2;
\* the first entry has no fragment, the third has four marks before it.
FunctionIndentationWitness ==
    /\ pc = "done" /\ cfg.indent = [type |-> "func", f |-> "nbang"]
    /\ LabelLocs(Out) = {1, 2, 3}
    /\ calls = <<[f |-> "nbang", depth |-> 0, for |-> 1],
                 [f |-> "nbang", depth |-> 1, for |-> 2],
                 [f |-> "nbang", depth |-> 2, for |-> 3]>>
    /\ \E p \in LabelPlaces(Out) :
          Out[p].dest = 3 /\ Out[p - 1] = Repeat(TextElem("!"), 4)

\* n copies of a content.
Copies(c, n) == [i \in 1..n |-> c]

\* C7 as stated: under a length every entry is indented by the spacer once
\* per chain entry, and an entry with an empty chain has no indentation
\* fragment in the output.
FixedIndentationNoFragmentAtTop ==
    cfg.indent.type = "length" =>
        \A p \in LabelPlaces(Out) :
            LET n == Len(ChainOf(Out[p].dest)) IN
            IF n = 0 THEN EntryBoundary(Out[p - 1])
            ELSE Children(Out[p - 1]) = Copies(HElem(cfg.indent.len), n)

\* C7, amended: under a length the fragment before every entry body holds
\* the spacer exactly once per chain entry; for an empty chain the fragment
\* holds no spacer, and it is in the output all the same.
FixedIndentation ==
    cfg.indent.type = "length" =>
        \A p \in LabelPlaces(Out) :
            LET n == Len(ChainOf(Out[p].dest)) IN
            /\ ~EntryBoundary(Out[p - 1])
            /\ Children(Out[p - 1]) = Copies(HElem(cfg.indent.len), n)
            /\ n = 0 => Out[p - 1] = Empty
            /\ EntryBoundary(Out[p - 2])

\* Matches of levels 1, 2, 3 under 2em: the empty fragment, one spacer and
\* two spacers.
FixedIndentationWitness ==
    /\ pc = "done" /\ cfg.indent.type = "length"
    /\ LabelLocs(Out) = {1, 2, 3}
    /\ \E p \in LabelPlaces(Out) : Out[p].dest = 1 /\ Out[p - 1] = Empty
    /\ \E p \in LabelPlaces(Out) : Out[p].dest = 2 /\ Out[p - 1] = HElem("2em")
    /\ \E p \in LabelPlaces(Out) :
          /\ Out[p].dest = 3
          /\ Children(Out[p - 1]) = <<HElem("2em"), HElem("2em")>>

\* The ancestors of a chain that have a numbering pattern.
Numbered(chain) == SelectSeq(chain, LAMBDA a : a.numbering # "none")
\* The number texts of `ns` joined by single spaces, and the number texts
\* each followed by a space.
RECURSIVE JoinedBySpaces(_)
JoinedBySpaces(ns) ==
    IF ns = <<>> THEN <<>>
    ELSE IF Len(ns) = 1 THEN <<Numbers(ns[1].loc)>>
    ELSE <<Numbers(ns[1].loc), Space>> \o JoinedBySpaces(Tail(ns))
RECURSIVE EachFollowedBySpace(_)
EachFollowedBySpace(ns) ==
    IF ns = <<>> THEN <<>>
    ELSE <<Numbers(ns[1].loc), Space>> \o EachFollowedBySpace(Tail(ns))

AutoLike == cfg.indent.type = "auto" \/ (cfg.indent.type = "bool" /\ cfg.indent.b)

\* The hidden fragment before the entry body at place p holds `text`, and a
\* space stands between the two.
HiddenBefore(p, text) ==
    /\ Out[p - 1] = Space
    /\ Out[p - 2].kind = "hide"
    /\ Out[p - 2].body.kind = "sequence"
    /\ Out[p - 2].body.children = text
    /\ EntryBoundary(Out[p - 3])

\* C8 as stated: under auto (or true) the hidden fragment holds the number
\* texts of the numbered ancestors, shallow to deep, joined by single
\* spaces; nothing is emitted for an empty chain.
AutoIndentJoinedBySpaces ==
    AutoLike =>
        \A p \in LabelPlaces(Out) :
            LET chain == ChainOf(Out[p].dest) IN
            IF chain = <<>> THEN EntryBoundary(Out[p - 1])
            ELSE HiddenBefore(p, JoinedBySpaces(Numbered(chain)))

\* C8, amended: the hidden fragment holds the number texts of the numbered
\* ancestors, shallow to deep, each resolved at the ancestor's own location
\* and each followed by a single space; nothing is emitted for an empty chain.
AutoIndentAlignment ==
    AutoLike =>
        \A p \in LabelPlaces(Out) :
            LET chain == ChainOf(Out[p].dest) IN
            IF chain = <<>> THEN EntryBoundary(Out[p - 1])
            ELSE HiddenBefore(p, EachFollowedBySpace(Numbered(chain)))

\* Numbered matches of levels 1 and 2 above a match of level 3: the hidden
\* fragment of the third entry holds both numbers, the shallower one first.
AutoIndentAlignmentWitness ==
    /\ pc = "done" /\ AutoLike
    /\ LabelLocs(Out) = {1, 2, 3}
    /\ elems[1].numbering = "ok" /\ elems[2].numbering = "ok"
    /\ \E p \in LabelPlaces(Out) :
          /\ Out[p].dest = 3
          /\ Out[p - 2] =
                HideElem(SequenceElem(<<Numbers(1), Space, Numbers(2), Space>>))

\* Targets a caller can pass: every heading, the headings of level 1, the
\* outlined headings of level 1, every figure, and the default.
HeadingTarget == [func |-> "heading", where |-> <<>>]
LevelOneTarget == [func |-> "heading", where |-> [level |-> 1]]
OutlinedLevelOneTarget ==
    [func |-> "heading", where |-> [outlined |-> "true", level |-> 1]]
FigureTarget == [func |-> "figure", where |-> <<>>]
Targets ==
    {DefaultTarget, HeadingTarget, LevelOneTarget, OutlinedLevelOneTarget,
     FigureTarget}

\* What a pass with a target picks up among the elements of a content.
QueryIn(c, target) == {e \in ElementsIn(c, <<>>) : Matches(target, e)}

\* No element of the finalized output is flagged outlined or has a numbering.
NothingOutlined ==
    \A e \in ElementsIn(output, <<>>) :
        e.outlined = "false" /\ e.numbering = "none"
\* No heading of the finalized output is flagged outlined or has a numbering.
NoHeadingOutlined ==
    \A e \in ElementsIn(output, <<>>) :
        e.kind = "heading" => e.outlined = "false" /\ e.numbering = "none"
\* The elements of a content that are not headings, with their flags.
OthersIn(c) == {e \in ElementsIn(c, <<>>) : e.kind # "heading"}

LabelSeq(s) ==
    LET labels == SelectSeq(s, IsLabel) IN
    [k \in 1..Len(labels) |-> labels[k].dest]
Locs(es) == [k \in 1..Len(es) |-> es[k].loc]

\* What follows the entry body at place p: the filler, the page number
\* linked to the same match, and a line break.
EntryTail(p) ==
    LET l == Out[p].dest
        page == Linked(PageOf(l, IF cfg.pageNumbering = "none" THEN "1"
                                 ELSE cfg.pageNumbering), l)
    IN  IF cfg.fill = "none"
        THEN /\ Len(Out) >= p + 3
             /\ Out[p + 1] = HElem("1fr")
             /\ Out[p + 2] = page
             /\ Out[p + 3] = Linebreak
        ELSE /\ Len(Out) >= p + 5
             /\ Out[p + 1] = Space
             /\ Out[p + 2].kind = "box"
             /\ Out[p + 3] = Space
             /\ Out[p + 4] = page
             /\ Out[p + 5] = Linebreak

\* What stands before the entry body at place p, back to the end of the
\* entry before it: at most an indentation fragment and a space.
EntryHead(p) ==
    LET q == CHOOSE i \in 1..(p - 1) :
                 EntryBoundary(Out[i]) /\ \A k \in (i + 1)..(p - 1) : ~EntryBoundary(Out[k])
    IN  /\ p - q - 1 <= 2
        /\ \A k \in (q + 1)..(p - 1) :
              Out[k].kind \in {"hide", "space", "h", "sequence", "text"}

\* C10: the entries are, in the order of the query result, exactly the
\* matches within the depth that have an entry body, one entry each; every
\* entry is indentation, linked body, filler, linked page number, line
\* break; and a match is in the ancestor chain only once its entry is in
\* the sequence.
OrderPreserved ==
    pc \in {"loop", "render", "done", "finalized"} =>
        /\ LabelSeq(Out) = Locs(Indented)
        /\ Out[1] = Parbreak
        /\ \A p \in LabelPlaces(Out) :
              /\ Out[p] = Linked(OutlineOf(Out[p].dest), Out[p].dest)
              /\ EntryHead(p)
              /\ EntryTail(p)
        /\ \A i \in 1..Len(ancestors) : ancestors[i].loc \in LabelLocs(Out)
        /\ pc = "render" => Current.loc \notin LabelLocs(Out)
        /\ pc = "loop" /\ Indented # <<>> =>
              /\ Out[Len(Out)] = Linebreak
              /\ Last(ancestors) = Last(Indented)
        /\ pc = "done" => Out[Len(Out)] = Parbreak

\* Of three matches the second has no entry body: the entries are those of
\* the first and the third, in that order.
OrderPreservedWitness ==
    /\ pc = "done" /\ Len(elems) = 3
    /\ Absent(elems[2])
    /\ LabelSeq(Out) = <<1, 3>>

\* The spans of the running call are its own; those of a call in its body,
\* or of the call whose body it is in, are not.
Vals == ValuesOf(args, Nesting)
Places == <<"first", "second", "horizontal", "vertical", "end">>
Own(span) == \E i \in DOMAIN Places : span = SpanOf(Nesting, Places[i])
Place(span) ==
    CHOOSE i \in DOMAIN Places : span = SpanOf(Nesting, Places[i])
OwnWrites == {k \in DOMAIN writes : Own(writes[k].during)}
OtherAxis(gen_axis) == IF gen_axis = "main" THEN "cross" ELSE "main"

\* The positional `center`s, whose axis is unknown, and the alignments that
\* name an axis they can take.
Centers == {i \in DOMAIN Vals : Vals[i].axis = NoAxis}
Takers ==
    {i \in DOMAIN Vals :
        Vals[i].axis # NoAxis /\ AxisOf(Vals[i].v) \in {NoAxis, Vals[i].axis}}
FirstTaker == Vals[CHOOSE i \in Takers : \A j \in Takers : i <= j]

\* The assignments made during an argument, the diagnostics given for it,
\* and whether an axis was set by an earlier argument.
WritesDuring(span) == {k \in DOMAIN writes : writes[k].during = span}
DiagsFor(span) == {k \in DOMAIN diags : diags[k].span = span}
SetBefore(gen_axis, span) ==
    \E k \in OwnWrites :
        writes[k].axis = gen_axis /\ Place(writes[k].during) < Place(span)

\* A named alignment that belongs to the other axis takes no axis; any other
\* alignment with a known axis is late when an earlier argument has set its
\* axis.
Invalid(val) == val.axis # NoAxis /\ AxisOf(val.v) \notin {NoAxis, val.axis}
Late(val) ==
    /\ val.axis # NoAxis
    /\ SetBefore(SwitchAxis(val.axis, args.dirs), val.span)
DuplicateDiag(val) ==
    Diag("duplicate alignment for " \o val.axis \o " axis", val.span)
InvalidDiag(val) ==
    Diag("invalid alignment for " \o val.axis \o " axis", val.span)
OnlyDiag(val, diag) ==
    /\ WritesDuring(val.span) = {}
    /\ Cardinality(DiagsFor(val.span)) = 1
    /\ \E k \in DOMAIN diags : diags[k] = diag

\* C12: axis inference in align. After apply, (a) one positional `center`
\* next to an alignment that takes an axis lies on the other axis, the other
\* alignment on its own; (b) two positional `center`s center both axes;
\* (c) a positional `center` with no other alignment taking an axis centers
\* the cross axis and leaves the main axis as it was. Throughout apply,
\* (d) an axis is assigned during one argument only and holds what that
\* argument gave it; an argument for an axis set earlier assigns nothing and
\* draws exactly one diagnostic: the duplicate-alignment one if its alignment
\* can lie on that axis, the invalid-alignment one if it belongs to the other
\* axis, as any such argument does; a positional `center` draws none.
AxisInference ==
    /\ apc = "applied" =>
          /\ (Cardinality(Centers) = 1 /\ Takers # {}) =>
                LET gen_axis == SwitchAxis(FirstTaker.axis, args.dirs) IN
                /\ aligns[gen_axis] = SwitchAlign(FirstTaker.v, args.dirs)
                /\ aligns[OtherAxis(gen_axis)] = "center"
          /\ Cardinality(Centers) = 2 => aligns = Uniform("center")
          /\ (Cardinality(Centers) = 1 /\ Takers = {}) =>
                /\ aligns.cross = "center"
                /\ aligns.main = args.aligns.main
          /\ \A k \in OwnWrites : aligns[writes[k].axis] = writes[k].align
    /\ \A k, l \in OwnWrites :
          writes[k].axis = writes[l].axis =>
              /\ writes[k].during = writes[l].during
              /\ writes[k].align = writes[l].align
    /\ apc \in {"applied", "exec", "finished"} =>
          \A i \in DOMAIN Vals :
              /\ Invalid(Vals[i]) => OnlyDiag(Vals[i], InvalidDiag(Vals[i]))
              /\ (Late(Vals[i]) /\ ~Invalid(Vals[i])) =>
                    OnlyDiag(Vals[i], DuplicateDiag(Vals[i]))
              /\ Vals[i].axis = NoAxis => DiagsFor(Vals[i].span) = {}

\* `center, left, horizontal: right, vertical: left`: the `center` has gone
\* to the axis that `left` left free; `horizontal: right`, for the axis that
\* `left` has set, has drawn the duplicate diagnostic, and `vertical: left`,
\* for the axis the `center` has taken, the invalid one.
AxisInferenceWitness ==
    /\ apc = "applied"
    /\ args.first = "center" /\ args.second = "left"
    /\ args.horizontal = "right" /\ args.vertical = "left"
    /\ aligns[SwitchAxis("vertical", args.dirs)] = "center"
    /\ aligns # args.aligns
    /\ Late(Vals[3]) /\ Late(Vals[4])
    /\ diags = <<DuplicateDiag(Vals[3]), InvalidDiag(Vals[4])>>

\* C12 as stated: every argument for an axis that an earlier argument has
\* set draws the duplicate-alignment diagnostic. `left, horizontal: top`
\* draws the invalid-alignment diagnostic instead.
LateArgumentDrawsDuplicate ==
    apc \in {"applied", "exec", "finished"} =>
        \A i \in DOMAIN Vals :
            Late(Vals[i]) =>
                \E k \in DOMAIN diags : diags[k] = DuplicateDiag(Vals[i])
====
